---- MODULE Spec2Model ----
(***************************************************************************)
(* Model of src/modules/Google_Ads.py: main() builds one seed payload,     *)
(* calls KeywordPlanIdeaService.generate_keyword_ideas once and reshapes   *)
(* the lazily returned idea records into a nested dict.                    *)
(*                                                                         *)
(* Python values: None is the empty tuple and a present value x is <<x>>;  *)
(* a dict is the sequence of its <<key, value>> items in insertion order;  *)
(* strings are TLA+ strings, concatenated with \o.                         *)
(***************************************************************************)
EXTENDS Integers, Sequences, FiniteSets, TLC

\* ---------------------------------------------------------------- bounds
MaxKeywords == 2
MaxLocations == 1
MaxIdeas == 3

\* ------------------------------------------------------ program constants
NumMonths == 12
page_size == 100

None == <<>>
Some(x) == <<x>>

\* ------------------------------------------------------------- str(int)
Digit(d) ==
    CASE d = 0 -> "0" [] d = 1 -> "1" [] d = 2 -> "2" [] d = 3 -> "3"
      [] d = 4 -> "4" [] d = 5 -> "5" [] d = 6 -> "6" [] d = 7 -> "7"
      [] d = 8 -> "8" [] d = 9 -> "9"

RECURSIVE NatToStr(_)
NatToStr(n) == IF n < 10 THEN Digit(n) ELSE NatToStr(n \div 10) \o Digit(n % 10)

\* Python's str() on an int: decimal digits, "-" in front of a negative.
IntToStr(n) == IF n < 0 THEN "-" \o NatToStr(0 - n) ELSE NatToStr(n)

\* ------------------------------------------------------------------ dict
DictKeys(d) == [i \in 1..Len(d) |-> d[i][1]]

DictHas(d, k) == \E i \in 1..Len(d) : d[i][1] = k

DictGet(d, k) == d[CHOOSE i \in 1..Len(d) : d[i][1] = k][2]

\* Variant: re-assigning a key moves it to the end.
DictSet_move_to_end(d, k, v) ==
    Append(SelectSeq(d, LAMBDA item : item[1] /= k), <<k, v>>)

\* d[k] = v: an existing key keeps its position, a new key goes last.
DictSet(d, k, v) ==
    IF DictHas(d, k)
    THEN [i \in 1..Len(d) |-> IF d[i][1] = k THEN <<k, v>> ELSE d[i]]
    ELSE Append(d, <<k, v>>)

\* ------------------------------------------------------ month_to_integer_values
MonthNames ==
    <<"JANUARY", "FEBRUARY", "MARCH", "APRIL", "MAY", "JUNE", "JULY",
      "AUGUST", "SEPTEMBER", "OCTOBER", "NOVEMBER", "DECEMBER">>

\* Variant: single-digit months zero padded.
month_to_int_padded ==
    << <<"JANUARY", "/01">>, <<"FEBRUARY", "/02">>, <<"MARCH", "/03">>,
       <<"APRIL", "/04">>, <<"MAY", "/05">>, <<"JUNE", "/06">>,
       <<"JULY", "/07">>, <<"AUGUST", "/08">>, <<"SEPTEMBER", "/09">>,
       <<"OCTOBER", "/10">>, <<"NOVEMBER", "/11">>, <<"DECEMBER", "/12">> >>

month_to_int ==
    << <<"JANUARY", "/1">>, <<"FEBRUARY", "/2">>, <<"MARCH", "/3">>,
       <<"APRIL", "/4">>, <<"MAY", "/5">>, <<"JUNE", "/6">>,
       <<"JULY", "/7">>, <<"AUGUST", "/8">>, <<"SEPTEMBER", "/9">>,
       <<"OCTOBER", "/10">>, <<"NOVEMBER", "/11">>, <<"DECEMBER", "/12">> >>

month_to_integer_values(month, year) == IntToStr(year) \o DictGet(month_to_int, month)

\* ------------------------------------------------------------ enum names
\* KeywordPlanCompetitionLevel.Name(code)
CompetitionLevelName(code) ==
    CASE code = 0 -> "UNSPECIFIED" [] code = 1 -> "UNKNOWN" [] code = 2 -> "LOW"
      [] code = 3 -> "MEDIUM" [] code = 4 -> "HIGH"

\* --------------------------------------------------------- resource paths
geo_target_constant_path(location_id) == "geoTargetConstants/" \o location_id

language_constant_path(language_id) == "languageConstants/" \o language_id

StringValue(v) == [value |-> v]

\* ----------------------------------------------------------- truthiness
\* bool(x) of a list or of an optional string: empty list, None and "" are false.
TruthyList(l) == Len(l) > 0

TruthyStr(s) == s /= None /\ s[1] /= ""

\* ------------------------------------------------ map_*_to_string_values
\* Variant: keywords prepended instead of appended.
map_keywords_to_string_values_reversed(texts) ==
    [i \in 1..Len(texts) |-> StringValue(texts[Len(texts) + 1 - i])]

map_keywords_to_string_values(texts) == [i \in 1..Len(texts) |-> StringValue(texts[i])]

map_locations_to_string_values(ids) ==
    [i \in 1..Len(ids) |-> StringValue(geo_target_constant_path(ids[i]))]

map_language_to_string_value(id) == StringValue(language_constant_path(id))

\* ---------------------------------------------------------------- inputs
RECURSIVE SeqsUpTo(_, _)
SeqsUpTo(S, n) ==
    IF n = 0 THEN {<<>>}
    ELSE SeqsUpTo(S, n - 1) \cup {Append(s, x) : s \in SeqsUpTo(S, n - 1), x \in S}

KeywordPool == {"a", "b"}
LocationPool == {"2392"}
PageUrls == {None, Some(""), Some("http://example.com")}

\* ----------------------------------------------------- idea records
MonthlySearchVolume(m, y, v) == [month |-> m, year |-> y, monthly_searches |-> v]

\* Twelve consecutive months, NOVEMBER 2023 .. OCTOBER 2024.
RollingMonths ==
    [i \in 1..12 |->
        LET n == ((i + 9) % 12) + 1
        IN  MonthlySearchVolume(MonthNames[n], IF n >= 11 THEN 2023 ELSE 2024, 100 * i)]

\* Twelve records, the last repeating the first one's month and year.
RepeatedMonths ==
    [RollingMonths EXCEPT ![12] = MonthlySearchVolume("NOVEMBER", 2023, 7)]

\* Only eleven records.
ShortMonths == SubSeq(RollingMonths, 1, 11)

\* Twelve records, one with the enum's UNSPECIFIED member.
UnspecifiedMonths ==
    [RollingMonths EXCEPT ![3] = MonthlySearchVolume("UNSPECIFIED", 2024, 0)]

IdeaTexts == {"shoes", "boots"}

\* <<avg_monthly_searches, competition enum code, competition_index, months>>
IdeaShapes ==
    {<<1000, 4, 80, RollingMonths>>, <<10, 2, 5, RepeatedMonths>>,
     <<500, 3, 40, ShortMonths>>, <<0, 1, 0, UnspecifiedMonths>>}

IdeaPool ==
    {[text |-> t, avg_monthly_searches |-> m[1], competition |-> m[2],
      competition_index |-> m[3], monthly_search_volumes |-> m[4]] :
        t \in IdeaTexts, m \in IdeaShapes}

\* ------------------------------------------------- GoogleAdsException
FaultPool ==
    {[request_id |-> "abc123", code |-> "INVALID_ARGUMENT",
      errors |-> <<[message |-> "Invalid customer ID", location |-> <<>>]>>],
     [request_id |-> "def456", code |-> "PERMISSION_DENIED",
      errors |-> <<[message |-> "Bad seed", location |-> <<"keyword_seed", "keywords">>],
                   [message |-> "Quota exceeded", location |-> <<>>]>>]}

\* ------------------------------------------------- lines 103-127, one idea
\* First index of range(12) at which the loop body raises, 0 if none.
FirstRaisingIndex(search_volumes) ==
    LET bad == {i \in 1..NumMonths :
                   \/ i > Len(search_volumes)
                   \/ ~DictHas(month_to_int, search_volumes[i].month)}
    IN  IF bad = {} THEN 0 ELSE CHOOSE i \in bad : \A j \in bad : i <= j

IdeaRaises(idea) ==
    LET sv == idea.monthly_search_volumes
        i == FirstRaisingIndex(sv)
    IN  IF i = 0 THEN ""
        ELSE IF i > Len(sv) THEN "IndexError" ELSE "KeyError"

RECURSIVE MonthlyVolumes(_, _)
\* The inner loop over range(n): the dict after indices 1..n.
MonthlyVolumes(search_volumes, n) ==
    IF n = 0 THEN <<>>
    ELSE DictSet(MonthlyVolumes(search_volumes, n - 1),
                 month_to_integer_values(search_volumes[n].month, search_volumes[n].year),
                 [value |-> search_volumes[n].monthly_searches])

\* Variant: the competition enum code stored in place of the competition index.
IdeaEntry_code_as_value(idea) ==
    [avg_monthly_searches_volume |-> idea.avg_monthly_searches,
     monthly_search_volumes |-> MonthlyVolumes(idea.monthly_search_volumes, NumMonths),
     competition |-> [level |-> CompetitionLevelName(idea.competition),
                      value |-> idea.competition]]

IdeaEntry(idea) ==
    [avg_monthly_searches_volume |-> idea.avg_monthly_searches,
     monthly_search_volumes |-> MonthlyVolumes(idea.monthly_search_volumes, NumMonths),
     competition |-> [level |-> CompetitionLevelName(idea.competition),
                      value |-> idea.competition_index]]

\* ------------------------------------------------- lines 131-139
FieldLines(location) == [i \in 1..Len(location) |-> "\t\tOn field: " \o location[i]]

RECURSIVE ErrorLines(_)
ErrorLines(errors) ==
    IF errors = <<>> THEN <<>>
    ELSE <<"\tError with message \"" \o Head(errors).message \o "\".">>
         \o FieldLines(Head(errors).location)
         \o ErrorLines(Tail(errors))

ReportLines(e) ==
    <<"Request with ID \"" \o e.request_id \o "\" failed with status \""
      \o e.code \o "\" and includes the following errors:">>
    \o ErrorLines(e.errors)

VARIABLES
    pc,               \* position in main
    customer_id, location_ids, language_id, keyword_texts, page_url,
    locations, language,
    url_seed, keyword_seed, keyword_url_seed,
    calls,            \* service calls made so far, in order
    consumed,         \* idea records fetched from the lazy sequence so far
    transformed,      \* how often each fetched record was transformed
    result,           \* the dict under construction
    ex,               \* the caught GoogleAdsException
    output,           \* lines printed
    returned,         \* value returned by main
    raised,           \* exception that left main
    exit_status,      \* status passed to sys.exit
    key_calls         \* the last two applications of month_to_integer_values

vars == <<pc, customer_id, location_ids, language_id, keyword_texts, page_url,
          locations, language, url_seed, keyword_seed, keyword_url_seed,
          calls, consumed, transformed, result, ex, output, returned, raised,
          exit_status, key_calls>>

inputs == <<customer_id, location_ids, language_id, keyword_texts, page_url>>

Init ==
    /\ pc = "main"
    /\ customer_id = "1234567890"
    /\ location_ids \in SeqsUpTo(LocationPool, MaxLocations)
    /\ language_id = "1005"
    /\ keyword_texts \in SeqsUpTo(KeywordPool, MaxKeywords)
    /\ page_url \in PageUrls
    /\ locations = None
    /\ language = None
    /\ url_seed = None
    /\ keyword_seed = None
    /\ keyword_url_seed = None
    /\ calls = <<>>
    /\ consumed = <<>>
    /\ transformed = <<>>
    /\ result = None
    /\ ex = None
    /\ output = <<>>
    /\ returned = None
    /\ raised = ""
    /\ exit_status = None
    /\ key_calls = <<>>

\* line 48
MapLocations ==
    /\ pc = "main"
    /\ locations' = Some(map_locations_to_string_values(location_ids))
    /\ calls' = calls \o [i \in 1..Len(location_ids) |->
                            <<"geo_target_constant_path", location_ids[i]>>]
    /\ pc' = "language"
    /\ UNCHANGED <<inputs, key_calls, language, url_seed, keyword_seed, keyword_url_seed,
                   consumed, transformed, result, ex, output, returned, raised,
                   exit_status>>

\* line 49
MapLanguage ==
    /\ pc = "language"
    /\ language' = Some(map_language_to_string_value(language_id))
    /\ calls' = Append(calls, <<"language_constant_path", language_id>>)
    /\ pc' = "validate"
    /\ UNCHANGED <<inputs, key_calls, locations, url_seed, keyword_seed, keyword_url_seed,
                   consumed, transformed, result, ex, output, returned, raised,
                   exit_status>>

\* Variant: the check of lines 60-64 left out.
Validate_never_raises ==
    /\ pc = "validate"
    /\ pc' = "url_seed"
    /\ UNCHANGED <<inputs, key_calls, locations, language, url_seed, keyword_seed,
                   keyword_url_seed, calls, consumed, transformed, result, ex,
                   output, returned, raised, exit_status>>

\* lines 60-64
Validate ==
    /\ pc = "validate"
    /\ IF ~(TruthyList(keyword_texts) \/ TruthyStr(page_url))
       THEN pc' = "raised" /\ raised' = "ValueError"
       ELSE pc' = "url_seed" /\ raised' = raised
    /\ UNCHANGED <<inputs, key_calls, locations, language, url_seed, keyword_seed,
                   keyword_url_seed, calls, consumed, transformed, result, ex,
                   output, returned, exit_status>>

\* Variant: the UrlSeed is created but its url is never assigned.
BuildUrlSeed_unset_url ==
    /\ pc = "url_seed"
    /\ IF ~TruthyList(keyword_texts) /\ TruthyStr(page_url)
       THEN url_seed' = Some([url |-> StringValue("")])
       ELSE url_seed' = url_seed
    /\ pc' = "keyword_seed"
    /\ UNCHANGED <<inputs, key_calls, locations, language, keyword_seed,
                   keyword_url_seed, calls, consumed, transformed, result, ex,
                   output, returned, raised, exit_status>>

\* lines 68-70
BuildUrlSeed ==
    /\ pc = "url_seed"
    /\ IF ~TruthyList(keyword_texts) /\ TruthyStr(page_url)
       THEN url_seed' = Some([url |-> StringValue(page_url[1])])
       ELSE url_seed' = url_seed
    /\ pc' = "keyword_seed"
    /\ UNCHANGED <<inputs, key_calls, locations, language, keyword_seed, keyword_url_seed,
                   calls, consumed, transformed, result, ex, output, returned,
                   raised, exit_status>>

\* lines 75-78
BuildKeywordSeed ==
    /\ pc = "keyword_seed"
    /\ IF TruthyList(keyword_texts) /\ ~TruthyStr(page_url)
       THEN keyword_seed' =
                Some([keywords |-> map_keywords_to_string_values(keyword_texts)])
       ELSE keyword_seed' = keyword_seed
    /\ pc' = "keyword_url_seed"
    /\ UNCHANGED <<inputs, key_calls, locations, language, url_seed, keyword_url_seed,
                   calls, consumed, transformed, result, ex, output, returned,
                   raised, exit_status>>

\* lines 83-87: line 86 reads the unbound name keyword_textss, so the branch
\* raises NameError after the url was set and before any keyword is added.
BuildKeywordUrlSeed ==
    /\ pc = "keyword_url_seed"
    /\ IF TruthyList(keyword_texts) /\ TruthyStr(page_url)
       THEN /\ keyword_url_seed' =
                   Some([url |-> StringValue(page_url[1]), keywords |-> <<>>])
            /\ pc' = "raised"
            /\ raised' = "NameError"
       ELSE /\ keyword_url_seed' = keyword_url_seed
            /\ pc' = "call"
            /\ raised' = raised
    /\ UNCHANGED <<inputs, key_calls, locations, language, url_seed, keyword_seed, calls,
                   consumed, transformed, result, ex, output, returned,
                   exit_status>>

\* Variant: keyword_seed also passed as keyword_and_url_seed.
Request_keyword_seed_twice ==
    [customer_id |-> customer_id,
     language |-> language[1],
     locations |-> locations[1],
     include_adult_keywords |-> FALSE,
     keyword_plan_network |-> "GOOGLE_SEARCH_AND_PARTNERS",
     page_size |-> page_size,
     url_seed |-> url_seed,
     keyword_seed |-> keyword_seed,
     keyword_and_url_seed |-> keyword_seed]

\* The arguments of lines 90-100.
Request ==
    [customer_id |-> customer_id,
     language |-> language[1],
     locations |-> locations[1],
     include_adult_keywords |-> FALSE,
     keyword_plan_network |-> "GOOGLE_SEARCH_AND_PARTNERS",
     page_size |-> page_size,
     url_seed |-> url_seed,
     keyword_seed |-> keyword_seed,
     keyword_and_url_seed |-> keyword_url_seed]

\* lines 90-101: the call returns the lazy sequence, or raises at once.
GenerateKeywordIdeas ==
    /\ pc = "call"
    /\ calls' = Append(calls, <<"generate_keyword_ideas", Request>>)
    /\ \/ /\ result' = Some(<<>>)
          /\ pc' = "iterate"
          /\ ex' = ex
       \/ /\ \E f \in FaultPool : ex' = Some(f)
          /\ pc' = "except"
          /\ result' = result
    /\ UNCHANGED <<inputs, key_calls, locations, language, url_seed, keyword_seed,
                   keyword_url_seed, consumed, transformed, output, returned,
                   raised, exit_status>>

\* lines 103-127: the sequence yields one more record and the body runs on it.
NextIdea ==
    /\ pc = "iterate"
    /\ Len(consumed) < MaxIdeas
    /\ \E idea \in IdeaPool :
          /\ consumed' = Append(consumed, idea)
          /\ IF IdeaRaises(idea) /= ""
             THEN /\ pc' = "raised"
                  /\ raised' = IdeaRaises(idea)
                  /\ result' = result
                  /\ transformed' = Append(transformed, 0)
             ELSE /\ pc' = pc
                  /\ raised' = raised
                  /\ result' = Some(DictSet(result[1], idea.text, IdeaEntry(idea)))
                  /\ transformed' = Append(transformed, 1)
    /\ UNCHANGED <<inputs, key_calls, locations, language, url_seed, keyword_seed,
                   keyword_url_seed, calls, ex, output, returned, exit_status>>

\* line 103: fetching the next record raises GoogleAdsException.
IterationFault ==
    /\ pc = "iterate"
    /\ \E f \in FaultPool : ex' = Some(f)
    /\ pc' = "except"
    /\ UNCHANGED <<inputs, key_calls, locations, language, url_seed, keyword_seed,
                   keyword_url_seed, calls, consumed, transformed, result,
                   output, returned, raised, exit_status>>

\* line 128: the sequence is exhausted.
ReturnResult ==
    /\ pc = "iterate"
    /\ returned' = result
    /\ pc' = "returned"
    /\ UNCHANGED <<inputs, key_calls, locations, language, url_seed, keyword_seed,
                   keyword_url_seed, calls, consumed, transformed, result, ex,
                   output, raised, exit_status>>

\* Variant: sys.exit() without a status.
ReportFault_exit_zero ==
    /\ pc = "except"
    /\ output' = output \o ReportLines(ex[1])
    /\ exit_status' = Some(0)
    /\ pc' = "exited"
    /\ UNCHANGED <<inputs, key_calls, locations, language, url_seed, keyword_seed,
                   keyword_url_seed, calls, consumed, transformed, result, ex,
                   returned, raised>>

\* Variant: the handler reports and then retries the call.
ReportFault_retry ==
    /\ pc = "except"
    /\ output' = output \o ReportLines(ex[1])
    /\ ex' = None
    /\ pc' = "call"
    /\ UNCHANGED <<inputs, key_calls, locations, language, url_seed, keyword_seed,
                   keyword_url_seed, calls, consumed, transformed, result,
                   returned, raised, exit_status>>

\* lines 130-140
ReportFault ==
    /\ pc = "except"
    /\ output' = output \o ReportLines(ex[1])
    /\ exit_status' = Some(1)
    /\ pc' = "exited"
    /\ UNCHANGED <<inputs, key_calls, locations, language, url_seed, keyword_seed,
                   keyword_url_seed, calls, consumed, transformed, result, ex,
                   returned, raised>>

Next ==
    \/ MapLocations
    \/ MapLanguage
    \/ Validate
    \/ BuildUrlSeed
    \/ BuildKeywordSeed
    \/ BuildKeywordUrlSeed
    \/ GenerateKeywordIdeas
    \/ NextIdea
    \/ IterationFault
    \/ ReturnResult
    \/ ReportFault

Spec == Init /\ [][Next]_vars

\* ------------------------------------------------------------------------
\* month_to_integer_values on its own: every month name with a range of years.
KeyYears == {-1, 0, 1, 2, 11, 12, 202, 2023, 2024, 20231}

InitKey ==
    /\ pc = "month_to_integer_values"
    /\ customer_id = "" /\ location_ids = <<>> /\ language_id = ""
    /\ keyword_texts = <<>> /\ page_url = None
    /\ locations = None /\ language = None
    /\ url_seed = None /\ keyword_seed = None /\ keyword_url_seed = None
    /\ calls = <<>> /\ consumed = <<>> /\ transformed = <<>>
    /\ result = None /\ ex = None /\ output = <<>>
    /\ returned = None /\ raised = "" /\ exit_status = None
    /\ key_calls = <<>>

ApplyKey ==
    /\ pc = "month_to_integer_values"
    /\ \E m \in 1..Len(MonthNames), y \in KeyYears :
          LET c == [month |-> MonthNames[m], year |-> y,
                    key |-> month_to_integer_values(MonthNames[m], y)]
          IN  key_calls' = IF key_calls = <<>> THEN <<c>>
                           ELSE <<key_calls[Len(key_calls)], c>>
    /\ UNCHANGED <<pc, inputs, locations, language, url_seed, keyword_seed,
                   keyword_url_seed, calls, consumed, transformed, result, ex,
                   output, returned, raised, exit_status>>

NextKey == ApplyKey

SpecKey == InitKey /\ [][NextKey]_vars

\* ========================================================================
\* Properties
\* ========================================================================
GenerateCalls == {i \in 1..Len(calls) : calls[i][1] = "generate_keyword_ideas"}

HasGenerateCall == GenerateCalls /= {}

PastCall == pc \in {"iterate", "except", "exited", "returned"}
              \/ (pc = "raised" /\ raised \in {"IndexError", "KeyError"})

Terminated == pc \in {"raised", "returned", "exited"}

Contains(str, sub) ==
    \E i \in 1..(Len(str) - Len(sub) + 1) : SubSeq(str, i, i + Len(sub) - 1) = sub

MonthNumber(name) == CHOOSE n \in 1..Len(MonthNames) : MonthNames[n] = name

ExpectedKey(month, year) == IntToStr(year) \o "/" \o IntToStr(MonthNumber(month))

NoInput == keyword_texts = <<>> /\ page_url = None

\* C1 as stated: with no keywords and page_url None, main fails with
\* ValueError and no lookup or remote call of any kind was made before that.
C1_NoCallBeforeValueError ==
    (NoInput /\ pc = "raised") => (raised = "ValueError" /\ calls = <<>>)

\* C1 amended: with no keywords and page_url None, main fails with ValueError
\* before generate_keyword_ideas is invoked; by then the geo-target path of
\* every location id and the language path have been looked up (lines 48-49).
C1_ValueErrorBeforeGenerate ==
    NoInput =>
        /\ ~HasGenerateCall
        /\ pc \in {"main", "language", "validate", "raised"}
        /\ pc = "raised" =>
              /\ raised = "ValueError"
              /\ returned = None
              /\ calls = [i \in 1..Len(location_ids) |->
                            <<"geo_target_constant_path", location_ids[i]>>]
                         \o <<(<<"language_constant_path", language_id>>)>>

C1_Witness ==
    NoInput /\ pc = "raised" /\ raised = "ValueError" /\ Len(calls) = 2

\* C2: with keywords and a page url, generate_keyword_ideas is reached and
\* gets the combined seed (url = page_url, keywords = keyword_texts in order),
\* url_seed and keyword_seed absent.
C2_CombinedSeedSent ==
    (TruthyList(keyword_texts) /\ TruthyStr(page_url) /\ Terminated) =>
        /\ HasGenerateCall
        /\ \A c \in GenerateCalls :
              LET r == calls[c][2] IN
              /\ r.url_seed = None
              /\ r.keyword_seed = None
              /\ r.keyword_and_url_seed /= None
              /\ r.keyword_and_url_seed[1].url.value = page_url[1]
              /\ Len(r.keyword_and_url_seed[1].keywords) = Len(keyword_texts)
              /\ \A j \in 1..Len(keyword_texts) :
                    r.keyword_and_url_seed[1].keywords[j].value = keyword_texts[j]

\* C3: a GoogleAdsException, raised by the call or while iterating, is
\* reported (request id, status name, every error message), the process exits
\* with status 1 and main returns nothing.
C3_FaultReportedAndExit ==
    /\ ex /= None => (pc \in {"except", "exited"} /\ returned = None /\ raised = "")
    /\ pc = "exited" =>
          /\ ex /= None
          /\ exit_status = Some(1)
          /\ returned = None
          /\ Len(output) >= 1 + Len(ex[1].errors)
          /\ Contains(output[1], "\"" \o ex[1].request_id \o "\"")
          /\ Contains(output[1], "\"" \o ex[1].code \o "\"")
          /\ \A i \in 1..Len(ex[1].errors) :
                \E j \in 2..Len(output) :
                    Contains(output[j], "\"" \o ex[1].errors[i].message \o "\"")

C3_Witness ==
    /\ pc = "exited" /\ Len(consumed) >= 1 /\ result /= None /\ Len(result[1]) >= 1
    /\ Len(ex[1].errors) = 2

\* C4: with keywords and no page url (None or ""), the call gets the
\* keyword-only seed: one keyword value per element of keyword_texts, same
\* order and length; url_seed and keyword_and_url_seed absent.
C4_KeywordOnlySeed ==
    (TruthyList(keyword_texts) /\ ~TruthyStr(page_url)) =>
        /\ PastCall => HasGenerateCall
        /\ \A c \in GenerateCalls :
              LET r == calls[c][2] IN
              /\ r.url_seed = None
              /\ r.keyword_and_url_seed = None
              /\ r.keyword_seed /= None
              /\ Len(r.keyword_seed[1].keywords) = Len(keyword_texts)
              /\ \A j \in 1..Len(keyword_texts) :
                    r.keyword_seed[1].keywords[j].value = keyword_texts[j]

C4_Witness ==
    /\ HasGenerateCall /\ page_url = Some("")
    /\ Len(keyword_texts) = 2 /\ keyword_texts[1] /= keyword_texts[2]

\* C5: with no keywords and a non-empty page url, the call gets the URL-only
\* seed with url = page_url; keyword_seed and keyword_and_url_seed absent.
C5_UrlOnlySeed ==
    (~TruthyList(keyword_texts) /\ TruthyStr(page_url)) =>
        /\ PastCall => HasGenerateCall
        /\ \A c \in GenerateCalls :
              LET r == calls[c][2] IN
              /\ r.keyword_seed = None
              /\ r.keyword_and_url_seed = None
              /\ r.url_seed /= None
              /\ r.url_seed[1].url.value = page_url[1]

C5_Witness ==
    HasGenerateCall /\ keyword_texts = <<>> /\ page_url = Some("http://example.com")

\* ------------------------------------------------------------------ C6
EnumLevelNames == <<"UNSPECIFIED", "UNKNOWN", "LOW", "MEDIUM", "HIGH">>

\* The record's entry is still the one stored for its text.
NotOverwritten(k) ==
    \A l \in (k + 1)..Len(consumed) :
        consumed[l].text = consumed[k].text => transformed[l] = 0

HasResultEntry(k) == result /= None /\ DictHas(result[1], consumed[k].text)

ResultEntry(k) == DictGet(result[1], consumed[k].text)

ScalarsMatch(k) ==
    /\ ResultEntry(k).avg_monthly_searches_volume = consumed[k].avg_monthly_searches
    /\ ResultEntry(k).competition.level = EnumLevelNames[consumed[k].competition + 1]
    /\ ResultEntry(k).competition.value = consumed[k].competition_index

\* C6 as stated: every consumed record with 12 month records has, under its
\* text, an entry with its average, 12 monthly entries (one per month record,
\* each {value: that month's count}) and its competition level name and index.
C6_TwelveEntriesPerRecord ==
    \A k \in 1..Len(consumed) :
        LET sv == consumed[k].monthly_search_volumes IN
        Len(sv) = NumMonths =>
            /\ HasResultEntry(k)
            /\ ScalarsMatch(k)
            /\ Len(ResultEntry(k).monthly_search_volumes) = NumMonths
            /\ \A i \in 1..NumMonths :
                  LET key == ExpectedKey(sv[i].month, sv[i].year) IN
                  /\ DictHas(ResultEntry(k).monthly_search_volumes, key)
                  /\ DictGet(ResultEntry(k).monthly_search_volumes, key)
                        = [value |-> sv[i].monthly_searches]

MonthsNamed(sv) == \A i \in 1..Len(sv) : \E n \in 1..Len(MonthNames) : MonthNames[n] = sv[i].month

\* Last of the first 12 month records with the month and year of record i.
LastSameMonth(sv, i) ==
    CHOOSE j \in i..NumMonths :
        /\ sv[j].month = sv[i].month /\ sv[j].year = sv[i].year
        /\ \A l \in (j + 1)..NumMonths :
              ~(sv[l].month = sv[i].month /\ sv[l].year = sv[i].year)

\* C6 amended: for every record with 12 month records named JANUARY..DECEMBER,
\* the entry stored under its text (until a later record with the same text
\* replaces it) has its average, its competition level name and index, and one
\* monthly entry per distinct "<year>/<month>" key - 12 when the month records
\* have pairwise distinct month and year - holding the count of the last month
\* record with that key.
C6_EntryPerDistinctMonth ==
    \A k \in 1..Len(consumed) :
        LET sv == consumed[k].monthly_search_volumes IN
        (Len(sv) = NumMonths /\ MonthsNamed(sv) /\ NotOverwritten(k)) =>
            /\ HasResultEntry(k)
            /\ ScalarsMatch(k)
            /\ Len(ResultEntry(k).monthly_search_volumes)
                  = Cardinality({<<sv[i].month, sv[i].year>> : i \in 1..NumMonths})
            /\ \A i \in 1..NumMonths :
                  LET key == ExpectedKey(sv[i].month, sv[i].year) IN
                  /\ DictHas(ResultEntry(k).monthly_search_volumes, key)
                  /\ DictGet(ResultEntry(k).monthly_search_volumes, key)
                        = [value |-> sv[LastSameMonth(sv, i)].monthly_searches]

C6_Witness ==
    /\ pc = "returned" /\ Len(consumed) = 2
    /\ consumed[1].text = "shoes" /\ consumed[1].competition = 4
    /\ consumed[1].monthly_search_volumes = RollingMonths
    /\ consumed[2].text = "boots"
    /\ consumed[2].monthly_search_volumes = RepeatedMonths
    /\ Len(DictGet(returned[1], "shoes").monthly_search_volumes) = 12
    /\ Len(DictGet(returned[1], "boots").monthly_search_volumes) = 11

\* C7: month_to_integer_values(month, y) is "<y>/<n>", n the month's number
\* 1..12 without zero padding, and different (year, month) give different keys.
C7_MonthKey ==
    /\ \A i \in 1..Len(key_calls) :
          key_calls[i].key = ExpectedKey(key_calls[i].month, key_calls[i].year)
    /\ Len(key_calls) = 2 =>
          (<<key_calls[1].month, key_calls[1].year>> /= <<key_calls[2].month, key_calls[2].year>>
              => key_calls[1].key /= key_calls[2].key)

C7_Witness ==
    /\ Len(key_calls) = 2
    /\ key_calls[1] = [month |-> "JANUARY", year |-> 2024, key |-> "2024/1"]
    /\ key_calls[2].month = "DECEMBER" /\ key_calls[2].year = 2023
    /\ key_calls[2].key = "2023/12"

\* C8: whenever generate_keyword_ideas is invoked, exactly one of url_seed,
\* keyword_seed and keyword_and_url_seed is set.
C8_ExactlyOneSeed ==
    \A c \in GenerateCalls :
        LET r == calls[c][2] IN
        Cardinality({f \in {"url_seed", "keyword_seed", "keyword_and_url_seed"} :
                        r[f] /= None}) = 1

C8_Witness ==
    HasGenerateCall /\ keyword_seed /= None /\ url_seed = None /\ keyword_url_seed = None

\* ------------------------------------------------------------------ C9
RECURSIVE FirstOccurrences(_)
\* The texts of a sequence of records, each once, in order of first occurrence.
FirstOccurrences(records) ==
    IF records = <<>> THEN <<>>
    ELSE LET front == FirstOccurrences(SubSeq(records, 1, Len(records) - 1))
             t == records[Len(records)].text
         IN  IF \E i \in 1..Len(front) : front[i] = t THEN front ELSE Append(front, t)

LastWith(t) ==
    CHOOSE k \in 1..Len(consumed) :
        /\ consumed[k].text = t
        /\ \A l \in (k + 1)..Len(consumed) : consumed[l].text /= t

\* C9: when main returns, the mapping has one key per distinct text of the
\* sequence, in order of first occurrence, each holding the entry built from
\* the last record with that text.
C9_LastWriteWinsFirstOrder ==
    pc = "returned" =>
        /\ returned /= None
        /\ DictKeys(returned[1]) = FirstOccurrences(consumed)
        /\ \A i \in 1..Len(returned[1]) :
              returned[1][i][2] = IdeaEntry(consumed[LastWith(returned[1][i][1])])

C9_Witness ==
    /\ pc = "returned" /\ Len(consumed) = 3
    /\ consumed[1].text = consumed[3].text
    /\ consumed[2].text /= consumed[1].text
    /\ consumed[1] /= consumed[3]
    /\ Len(returned[1]) = 2

\* C10: generate_keyword_ideas is invoked at most once (never again after a
\* fault) and every record fetched from the sequence is transformed at most once.
C10_SingleCallSinglePass ==
    /\ Cardinality(GenerateCalls) <= 1
    /\ (ex /= None \/ Terminated \/ pc = "iterate") => Cardinality(GenerateCalls) = 1
          \/ (pc = "raised" /\ raised \in {"ValueError", "NameError"})
    /\ Len(transformed) = Len(consumed)
    /\ \A k \in 1..Len(transformed) : transformed[k] <= 1

C10_Witness ==
    /\ pc = "exited" /\ Cardinality(GenerateCalls) = 1
    /\ Len(consumed) = 2 /\ transformed = <<1, 1>>
====
